---- MODULE Spec2Model ----
(***************************************************************************)
(* nostrdb-jni: the JNI boundary layer of the nostrdb embedded database.   *)
(*                                                                         *)
(* The model is a state machine of the native heap objects the layer       *)
(* hands out as jlong handles (Box<Arc<Ndb>>, Box<Transaction>,            *)
(* Box<FilterBuilder>, Box<Filter>), of the calls in flight on each host   *)
(* thread, and of the host caller's record of the handles it was given.    *)
(*                                                                         *)
(* A call runs in steps:                                                   *)
(*   idle --entry--> engine --continuation--> done --JavaReturn--> idle    *)
(* The entry step is the closure body up to the engine call (handle and    *)
(* argument checks); a call whose checks fail, or that borrows no shared   *)
(* handle, runs to its return in the entry step.  The step that ends the   *)
(* closure also runs its wrapper (with_exception, catch_panic or           *)
(* catch_panic_void) on the closure's result.  JavaReturn is the host      *)
(* taking the result.                                                      *)
(***************************************************************************)
EXTENDS Integers, Sequences, FiniteSets, TLC

\* ------------------------------------------------------------- bounds
\* Native heap addresses a handle can take (0 is the null handle).
MaxAddr == 3
\* Subscription identifiers the engine hands out.
MaxSub == 1
\* Lines of a newline-delimited batch.
MaxLines == 2
\* References to one connection: the handle's, and those taken outside it.
MaxRefs == 2
\* Entries of a list the engine returns, or of 32-byte blocks the host passes.
MaxKeys == 2
\* Bytes of a kinds array.
MaxKindBytes == 8
MaxValues == 2

Addr == 1..MaxAddr
SubId == 1..MaxSub
Threads == {"t1", "t2"}
\* The thread that issues calls in the sequential specification.
MainThread == {"t1"}

VARIABLES
    heap,     \* Addr -> what the allocation at that address holds
    strong,   \* Addr -> strong count of the Arc<Ndb> held by the box there
    subs,     \* Addr -> subscriptions registered on that connection
    pc,       \* thread -> "idle" | "engine" | "done" | "crashed"
    call,     \* thread -> the call in flight (operation and arguments)
    out,      \* thread -> what the closure returned to its wrapper
    ret,      \* thread -> the value the native method returned
    raised,   \* thread -> the foreign errors thrown during the call
    dbs,      \* host: database handles it holds (shared by the threads)
    own,      \* host: per thread, the handles it holds, by role
    ub,       \* the first memory-safety violation, or "none"
    codec     \* a marshalling routine taken alone: its input and its result

vars == <<heap, strong, subs, pc, call, out, ret, raised, dbs, own, ub, codec>>

\* ------------------------------------------------------------- values
Kinds == {"free", "Arc<Ndb>", "Transaction", "FilterBuilder", "Filter"}

NoCall == [op |-> "", ndb |-> 0, txn |-> 0, flt |-> 0, arg |-> "",
           len |-> 0, sub |-> 0, lines |-> <<>>]
NoOut == [tag |-> "None", val |-> 0, err |-> "", name |-> "", eng |-> FALSE]
NoOwn == [txn |-> {}, bld |-> {}, flt |-> {}]

\* Result<T>::Ok(v) of a closure; eng: the body reached the engine.
Ok(v, eng) == [tag |-> "Ok", val |-> v, err |-> "", name |-> "", eng |-> eng]
\* Result<T>::Err(e); name is the payload of NullPointer.
Err(e, name, eng) == [tag |-> "Err", val |-> 0, err |-> e, name |-> name, eng |-> eng]
\* The closure unwound with a panic.
Panicked(eng) == [tag |-> "Panic", val |-> 0, err |-> "Panic", name |-> "", eng |-> eng]

\* ------------------------------------------------------------- error.rs
\* The variants of enum Error (Nostrdb split by the engine error it wraps).
ErrorKinds == {"Jni", "Nostrdb_NotFound", "Nostrdb_DbOpenFailed", "Nostrdb_Other",
               "InvalidIdLength", "NullPointer", "InvalidUtf8", "Json", "Filter",
               "InvalidState"}

\* Mutant: the inner match on the engine error is missing.
exception_class_flat(e) ==
    CASE e = "Jni" -> "java/lang/RuntimeException"
      [] e \in {"Nostrdb_NotFound", "Nostrdb_DbOpenFailed", "Nostrdb_Other"}
           -> "xyz/tcheeric/nostrdb/NostrdbException"
      [] e = "InvalidIdLength" -> "java/lang/IllegalArgumentException"
      [] e = "NullPointer" -> "java/lang/NullPointerException"
      [] e = "InvalidUtf8" -> "java/lang/IllegalArgumentException"
      [] e = "Json" -> "xyz/tcheeric/nostrdb/NostrdbException"
      [] e = "Filter" -> "xyz/tcheeric/nostrdb/NostrdbException"
      [] e = "InvalidState" -> "java/lang/IllegalStateException"

exception_class(e) ==
    CASE e = "Jni" -> "java/lang/RuntimeException"
      [] e = "Nostrdb_NotFound" -> "java/util/NoSuchElementException"
      [] e = "Nostrdb_DbOpenFailed" -> "java/io/IOException"
      [] e = "Nostrdb_Other" -> "xyz/tcheeric/nostrdb/NostrdbException"
      [] e = "InvalidIdLength" -> "java/lang/IllegalArgumentException"
      [] e = "NullPointer" -> "java/lang/NullPointerException"
      [] e = "InvalidUtf8" -> "java/lang/IllegalArgumentException"
      [] e = "Json" -> "xyz/tcheeric/nostrdb/NostrdbException"
      [] e = "Filter" -> "xyz/tcheeric/nostrdb/NostrdbException"
      [] e = "InvalidState" -> "java/lang/IllegalStateException"

\* Error::Panic is built by with_exception; its arm of exception_class is in
\* no file of src/ and is taken from the error table of the specification.
panic_exception_class == "java/lang/RuntimeException"

\* ------------------------------------------------------------- util.rs
\* throw_exception: the errors thrown so far, with `e` thrown after them.
throw_exception(thrown, e) ==
    Append(thrown, [kind |-> e,
                    class |-> IF e = "Panic" THEN panic_exception_class
                              ELSE exception_class(e)])

\* ptr_to_ref / ptr_to_mut: the null check, the only check made on a handle.
ptr_to_ref(ptr) == IF ptr = 0 THEN "NullPointer" ELSE "ok"

FreeAddrs(h) == {a \in Addr : h[a] = "free"}

\* Mutant: the allocator hands out any address, in use or not.
NewAddrs_any(h) == Addr

\* The addresses the allocator may return for the next Box::new.
NewAddrs(h) == FreeAddrs(h)

\* Mutant: filterBuild boxes the builder it was given, not the built filter.
box_to_ptr_unbuilt(h, a, k) == [h EXCEPT ![a] = IF k = "Filter" THEN "FilterBuilder" ELSE k]

\* box_to_ptr: the heap with a fresh allocation of kind k at address a.
box_to_ptr(h, a, k) == [h EXCEPT ![a] = k]

\* Mutant: dropping a connection ends the transactions too.
FreeBox_cascade(h, ptr) ==
    [x \in Addr |->
       IF x = ptr \/ (ptr \in Addr /\ h[ptr] = "Arc<Ndb>" /\ h[x] = "Transaction")
       THEN "free" ELSE h[x]]

\* Mutant: the box is leaked (Box::into_raw again) instead of dropped.
FreeBox_leak(h, ptr) == h

\* A Box<T> built by Box::from_raw(ptr) goes out of scope: the allocation at
\* ptr is released.
FreeBox(h, ptr) == [x \in Addr |-> IF x = ptr THEN "free" ELSE h[x]]

\* What a raw-pointer use of `ptr` as one of `kinds` amounts to: defined
\* ("none"), or undefined behaviour of the named sort.
RawUse(h, ptr, kinds) ==
    IF ptr = 0 THEN "null_deref"
    ELSE IF h[ptr] \in kinds THEN "none"
    ELSE "dangling"

\* Mutant: drop_ptr without its `if ptr != 0`.
drop_ptr_unchecked(h, ptr, kinds) ==
    [heap |-> FreeBox(h, ptr), sort |-> RawUse(h, ptr, kinds)]

\* drop_ptr::<T>: a null handle is skipped; anything else is rebuilt into its
\* box, which is dropped.  The heap after it, and what the use amounts to.
drop_ptr(h, ptr, kinds) ==
    IF ptr # 0 THEN [heap |-> FreeBox(h, ptr), sort |-> RawUse(h, ptr, kinds)]
    ELSE [heap |-> h, sort |-> "none"]

\* ------------------------------------------------------------- wrappers
BuilderTransitions == {"filterKinds", "filterAuthors", "filterTag", "filterSince",
                       "filterUntil", "filterLimit", "filterSearch"}

\* The operations by the protected region their body runs in.
WithException == {"ndbOpen", "processEvent", "processEvents", "beginTransaction",
                  "getNoteById", "getNoteByKey", "query", "filterKinds", "filterAuthors",
                  "filterTag", "filterSearch", "getProfileByPubkey", "searchProfiles",
                  "subscribe", "pollForNotes", "unsubscribe"}
CatchPanic == {"filterNew", "filterSince", "filterUntil", "filterLimit", "filterBuild"}
CatchPanicVoid == {"ndbClose", "endTransaction", "filterDestroy"}

\* The default each operation hands its wrapper: the incoming filter_ptr for
\* the builder transitions, -1 for processEvents, else 0 (a null jbyteArray,
\* a zero jlong or jint, unit).
Default(c) ==
    CASE c.op \in BuilderTransitions -> c.flt
      [] c.op = "processEvents" -> -1
      [] OTHER -> 0

\* What a wrapper hands the host: the value returned and the errors pending.
Returned(v, thrown) == [ret |-> v, raised |-> thrown]

\* Mutant: an Err is answered with the default but not thrown.
with_exception_silent(c, o, thrown) ==
    CASE o.tag = "Ok" -> Returned(o.val, thrown)
      [] o.tag = "Err" -> Returned(Default(c), thrown)
      [] o.tag = "Panic" -> Returned(Default(c), throw_exception(thrown, "Panic"))

\* with_exception: the match on the closure's result o of call c, `thrown`
\* being the errors the closure threw itself.
with_exception(c, o, thrown) ==
    CASE o.tag = "Ok" -> Returned(o.val, thrown)
      [] o.tag = "Err" -> Returned(Default(c), throw_exception(thrown, o.err))
      [] o.tag = "Panic" -> Returned(Default(c), throw_exception(thrown, "Panic"))

\* Mutant: catch_panic answers a panic with 0 whatever default it was given.
catch_panic_zero(c, o, thrown) ==
    CASE o.tag = "Ok" -> Returned(o.val, thrown)
      [] o.tag = "Panic" -> Returned(0, thrown)

\* catch_panic: the value, or the default with the panic logged.
catch_panic(c, o, thrown) ==
    CASE o.tag = "Ok" -> Returned(o.val, thrown)
      [] o.tag = "Panic" -> Returned(Default(c), thrown)

\* catch_panic_void: returns nothing; a panic is logged.
catch_panic_void(c, o, thrown) == Returned(0, thrown)

\* The protected region of call c applied to its closure's result.
Wrapper(c, o, thrown) ==
    CASE c.op \in WithException -> with_exception(c, o, thrown)
      [] c.op \in CatchPanic -> catch_panic(c, o, thrown)
      [] c.op \in CatchPanicVoid -> catch_panic_void(c, o, thrown)

\* ------------------------------------------------------------- steps
Idle(t) == pc[t] = "idle" /\ ub = "none"

\* The closure of thread t ended with result o: its wrapper returns.
Finish(t, c, o, thrown) ==
    /\ pc' = [pc EXCEPT ![t] = "done"]
    /\ out' = [out EXCEPT ![t] = o]
    /\ ret' = [ret EXCEPT ![t] = Wrapper(c, o, thrown).ret]
    /\ raised' = [raised EXCEPT ![t] = Wrapper(c, o, thrown).raised]
    /\ codec' = codec

\* The entry step of thread t: the call record, and either the engine call
\* comes next or the closure ended with result o.
Enter(t, c, stage, o) ==
    /\ call' = [call EXCEPT ![t] = c]
    /\ IF stage = "engine"
       THEN /\ pc' = [pc EXCEPT ![t] = "engine"]
            /\ UNCHANGED <<out, ret, raised, codec>>
       ELSE Finish(t, c, o, <<>>)

\* Undefined behaviour: the process dies there, or runs on.
Undefined(t, sort, c, stage, o) ==
    /\ ub' = sort
    /\ \/ /\ pc' = [pc EXCEPT ![t] = "crashed"]
          /\ call' = [call EXCEPT ![t] = c]
          /\ o.tag # "Panic"
          /\ UNCHANGED <<out, ret, raised, codec>>
       \/ Enter(t, c, stage, o)

\* A use of a raw pointer, then the rest of the entry step.
EnterRaw(t, sort, c, stage, o) ==
    IF sort = "none" THEN ub' = ub /\ Enter(t, c, stage, o)
    ELSE Undefined(t, sort, c, stage, o)

\* The host gives up a handle it passes to a consuming operation.
Consume(t, role, h) ==
    own' = [own EXCEPT ![t] = [own[t] EXCEPT ![role] = own[t][role] \ {h}]]

\* ------------------------------------------------------------- filter builder
\* Filter::new(): a FilterBuilder, or a panic inside the engine.
filterNew(t) ==
    /\ Idle(t)
    /\ own[t].bld = {}    \* the host builds one filter at a time per thread
    /\ FreeAddrs(heap) # {}
    /\ \E r \in {"ok", "panic"} :
         \/ /\ r = "ok"
            /\ \E a \in NewAddrs(heap) :
                 /\ heap' = box_to_ptr(heap, a, "FilterBuilder")
                 /\ Enter(t, [NoCall EXCEPT !.op = "filterNew"], "done", Ok(a, TRUE))
         \/ /\ r = "panic"
            /\ heap' = heap
            /\ Enter(t, [NoCall EXCEPT !.op = "filterNew"], "done", Panicked(TRUE))
    /\ UNCHANGED <<strong, subs, dbs, own, ub>>

\* The body shared by the seven builder transitions, after the argument was
\* marshalled: Box::from_raw(filter_ptr), an early return on a marshalling
\* error `merr` (the box is dropped), else the engine's consuming method,
\* which returns the next builder (boxed before the old box is released) or
\* panics (the builder is dropped while unwinding).
BuilderTransition(t, op, filter_ptr, arg, merr) ==
    LET c == [NoCall EXCEPT !.op = op, !.flt = filter_ptr, !.arg = arg]
        sort == RawUse(heap, filter_ptr, {"FilterBuilder"})
    IN  IF merr # ""
        THEN /\ heap' = FreeBox(heap, filter_ptr)
             /\ EnterRaw(t, sort, c, "done", Err(merr, "", FALSE))
        ELSE \E r \in {"ok", "panic"} :
               \/ /\ r = "ok"
                  /\ \E a \in NewAddrs(heap) :
                       /\ heap' = FreeBox(box_to_ptr(heap, a, "FilterBuilder"), filter_ptr)
                       /\ EnterRaw(t, sort, c, "done", Ok(a, TRUE))
               \/ /\ r = "panic"
                  /\ heap' = FreeBox(heap, filter_ptr)
                  /\ EnterRaw(t, sort, c, "done", Panicked(TRUE))

\* The builder handles the host passes: one it holds, or null.
BuilderArgs(t) == own[t].bld \cup {0}

filterKinds(t) ==
    /\ Idle(t)
    /\ FreeAddrs(heap) # {}
    /\ \E p \in BuilderArgs(t), kinds \in {"jni_err", "bytes"} :
         /\ BuilderTransition(t, "filterKinds", p, kinds,
                              IF kinds = "jni_err" THEN "Jni" ELSE "")
         /\ Consume(t, "bld", p)
    /\ UNCHANGED <<strong, subs, dbs>>

filterAuthors(t) ==
    /\ Idle(t)
    /\ FreeAddrs(heap) # {}
    /\ \E p \in BuilderArgs(t), authors \in {"jni_err", "bytes"} :
         /\ BuilderTransition(t, "filterAuthors", p, authors,
                              IF authors = "jni_err" THEN "Jni" ELSE "")
         /\ Consume(t, "bld", p)
    /\ UNCHANGED <<strong, subs, dbs>>

\* The arguments of filterTag by the first check that fails on them: the tag
\* name does not decode, it is empty, the array length cannot be read, an
\* element does not decode, or none.
TagArgs == {"name_err", "empty", "array_err", "elem_err", "ok"}

TagError(arg) ==
    CASE arg = "name_err" -> "Jni"
      [] arg = "empty" -> "Filter"
      [] arg = "array_err" -> "Jni"
      [] arg = "elem_err" -> "Jni"
      [] OTHER -> ""

filterTag(t) ==
    /\ Idle(t)
    /\ FreeAddrs(heap) # {}
    /\ \E p \in BuilderArgs(t), tag \in TagArgs :
         /\ BuilderTransition(t, "filterTag", p, tag, TagError(tag))
         /\ Consume(t, "bld", p)
    /\ UNCHANGED <<strong, subs, dbs>>

filterSince(t) ==
    /\ Idle(t)
    /\ FreeAddrs(heap) # {}
    /\ \E p \in BuilderArgs(t) :
         /\ BuilderTransition(t, "filterSince", p, "", "")
         /\ Consume(t, "bld", p)
    /\ UNCHANGED <<strong, subs, dbs>>

filterUntil(t) ==
    /\ Idle(t)
    /\ FreeAddrs(heap) # {}
    /\ \E p \in BuilderArgs(t) :
         /\ BuilderTransition(t, "filterUntil", p, "", "")
         /\ Consume(t, "bld", p)
    /\ UNCHANGED <<strong, subs, dbs>>

filterLimit(t) ==
    /\ Idle(t)
    /\ FreeAddrs(heap) # {}
    /\ \E p \in BuilderArgs(t) :
         /\ BuilderTransition(t, "filterLimit", p, "", "")
         /\ Consume(t, "bld", p)
    /\ UNCHANGED <<strong, subs, dbs>>

filterSearch(t) ==
    /\ Idle(t)
    /\ FreeAddrs(heap) # {}
    /\ \E p \in BuilderArgs(t), search \in {"jni_err", "text"} :
         /\ BuilderTransition(t, "filterSearch", p, search,
                              IF search = "jni_err" THEN "Jni" ELSE "")
         /\ Consume(t, "bld", p)
    /\ UNCHANGED <<strong, subs, dbs>>

\* Box::from_raw(filter_ptr); build() borrows the builder and returns the
\* Filter, which is boxed; the builder box is dropped at the end of the
\* closure, or while unwinding when build() panics.
filterBuild(t) ==
    /\ Idle(t)
    /\ FreeAddrs(heap) # {}
    /\ \E p \in BuilderArgs(t) :
         LET c == [NoCall EXCEPT !.op = "filterBuild", !.flt = p]
             sort == RawUse(heap, p, {"FilterBuilder"})
         IN  /\ \E r \in {"ok", "panic"} :
                  \/ /\ r = "ok"
                     /\ \E a \in NewAddrs(heap) :
                          /\ heap' = FreeBox(box_to_ptr(heap, a, "Filter"), p)
                          /\ EnterRaw(t, sort, c, "done", Ok(a, TRUE))
                  \/ /\ r = "panic"
                     /\ heap' = FreeBox(heap, p)
                     /\ EnterRaw(t, sort, c, "done", Panicked(TRUE))
             /\ Consume(t, "bld", p)
    /\ UNCHANGED <<strong, subs, dbs>>

\* drop_ptr::<Filter>: nothing at all for a null handle; else the box is
\* released, also when the engine's Drop panics.  The host destroys a filter
\* it holds, or a builder whose construction it abandons.
filterDestroy(t) ==
    /\ Idle(t)
    /\ \E p \in own[t].flt \cup own[t].bld \cup {0} :
         LET c == [NoCall EXCEPT !.op = "filterDestroy", !.flt = p]
             d == drop_ptr(heap, p, {"Filter", "FilterBuilder"})
         IN  /\ heap' = d.heap
             /\ IF p = 0
                THEN EnterRaw(t, d.sort, c, "done", Ok(0, FALSE))
                ELSE \E r \in {"ok", "panic"} :
                       EnterRaw(t, d.sort, c, "done",
                                IF r = "ok" THEN Ok(0, TRUE) ELSE Panicked(TRUE))
             /\ own' = [own EXCEPT ![t] = [own[t] EXCEPT !.flt = own[t].flt \ {p},
                                                         !.bld = own[t].bld \ {p}]]
    /\ UNCHANGED <<strong, subs, dbs>>

\* ------------------------------------------------------------- entry checks
\* One check of a closure's prologue: the error it fails with ("" when it
\* passes), the NullPointer payload, and what the raw-pointer use that follows
\* a passed null check amounts to.
NullChk(ptr, name, kinds) ==
    IF ptr_to_ref(ptr) # "ok"
    THEN [err |-> ptr_to_ref(ptr), name |-> name, sort |-> "none", val |-> 0]
    ELSE [err |-> "", name |-> name, sort |-> RawUse(heap, ptr, kinds), val |-> 0]

ArgChk(e) == [err |-> e, name |-> "", sort |-> "none", val |-> 0]

\* A check whose error carries a number (InvalidIdLength(len)).
ValChk(r) == [err |-> r.err, name |-> "", sort |-> "none", val |-> r.val]

Min(S) == CHOOSE x \in S : \A y \in S : x <= y

\* The index of the first failing check, 0 when all pass (the ? operator
\* returns at the first Err).
FirstFail(cs) ==
    LET bad == {i \in 1..Len(cs) : cs[i].err # ""}
    IN  IF bad = {} THEN 0 ELSE Min(bad)

\* The undefined behaviour met by the checks that ran.
MetSort(cs) ==
    LET k == FirstFail(cs)
        ran == IF k = 0 THEN Len(cs) ELSE k - 1
        u == {i \in 1..ran : cs[i].sort # "none"}
    IN  IF u = {} THEN "none" ELSE cs[Min(u)].sort

\* The &mut Ndb that unsubscribe takes from ptr_to_mut and Arc::get_mut lives
\* while another thread's borrow of the same connection does.
Aliased(t, c) ==
    \E u \in Threads \ {t} :
      /\ pc[u] = "engine"
      /\ call[u].ndb = c.ndb
      /\ "unsubscribe" \in {c.op, call[u].op}

\* The prologue of a closure that borrows handles: the checks in order, then
\* the engine call, or the first error.
Prologue(t, c, cs) ==
    LET k == FirstFail(cs)
        sort == IF MetSort(cs) # "none" THEN MetSort(cs)
                ELSE IF k = 0 /\ Aliased(t, c) THEN "aliased_mut"
                ELSE "none"
    IN  EnterRaw(t, sort, c,
                 IF k = 0 THEN "engine" ELSE "done",
                 IF k = 0 THEN NoOut
                 ELSE [Err(cs[k].err, cs[k].name, FALSE) EXCEPT !.val = cs[k].val])

\* java_string_to_rust: env.get_string fails, or the text.
java_string_to_rust(s) == IF s = "jni_err" THEN "Jni" ELSE ""

\* java_bytes_to_rust: env.convert_byte_array fails (len = -1), or the bytes.
java_bytes_to_rust(len) == IF len = -1 THEN "Jni" ELSE ""

\* Mutant: the length check is `<` where it should be `!=`.
java_bytes_to_32_atleast(len) ==
    IF java_bytes_to_rust(len) # "" THEN [err |-> java_bytes_to_rust(len), val |-> 0]
    ELSE IF len < 32 THEN [err |-> "InvalidIdLength", val |-> len]
    ELSE [err |-> "", val |-> 0]

\* java_bytes_to_32: the conversion, then the length check; the error and
\* the length InvalidIdLength carries.
java_bytes_to_32(len) ==
    IF java_bytes_to_rust(len) # "" THEN [err |-> java_bytes_to_rust(len), val |-> 0]
    ELSE IF len # 32 THEN [err |-> "InvalidIdLength", val |-> len]
    ELSE [err |-> "", val |-> 0]

\* Lengths of an id or pubkey argument; -1 is an array that cannot be read.
IdLens == {-1, 0, 31, 32, 33}

\* The engine's errors (nostrdb::Error), by the arm of exception_class.
EngineErrs == {"Nostrdb_NotFound", "Nostrdb_DbOpenFailed", "Nostrdb_Other"}

DbArgs == dbs \cup {0}
TxnArgs(t) == own[t].txn \cup {0}
FilterArgs(t) == own[t].flt \cup {0}

\* The continuation of a call in the engine: the closure ends.
Continue(t, o, thrown) == Finish(t, call[t], o, thrown)

InEngine(t, op) == pc[t] = "engine" /\ call[t].op = op

\* rust_bytes_to_java: the array (1), or null (0) with the error thrown by
\* the helper itself.
rust_bytes_to_java(t, allocated) ==
    IF allocated THEN Continue(t, Ok(1, TRUE), raised[t])
    ELSE Continue(t, Ok(0, TRUE), throw_exception(raised[t], "Jni"))

\* ------------------------------------------------------------- Ndb lifecycle
\* Arc::new(ndb) boxed: the box and the connection's count, kept at the
\* address of the box.
\* Mutant: the connection starts with a second counted reference.
Arc_new_cloned(s, a) == [s EXCEPT ![a] = 2]

\* Arc::new: a fresh connection, its sole holder the box behind the handle.
Arc_new(s, a) == [s EXCEPT ![a] = 1]

ndbOpen(t) ==
    /\ Idle(t)
    /\ dbs = {}           \* the host keeps one connection open at a time
    /\ FreeAddrs(heap) # {}
    /\ \E path \in {"jni_err", "text"} :
         LET c == [NoCall EXCEPT !.op = "ndbOpen", !.arg = path]
         IN  IF java_string_to_rust(path) # ""
             THEN /\ Enter(t, c, "done", Err(java_string_to_rust(path), "", FALSE))
                  /\ UNCHANGED <<heap, strong, subs>>
             ELSE \E r \in {"ok", "err", "panic"} :
                    \/ /\ r = "ok"
                       /\ \E a \in NewAddrs(heap) :
                            /\ heap' = box_to_ptr(heap, a, "Arc<Ndb>")
                            /\ strong' = Arc_new(strong, a)
                            /\ subs' = [subs EXCEPT ![a] = {}]
                            /\ Enter(t, c, "done", Ok(a, TRUE))
                    \/ /\ r = "err"
                       /\ \E e \in EngineErrs : Enter(t, c, "done", Err(e, "", TRUE))
                       /\ UNCHANGED <<heap, strong, subs>>
                    \/ /\ r = "panic"
                       /\ Enter(t, c, "done", Panicked(TRUE))
                       /\ UNCHANGED <<heap, strong, subs>>
    /\ UNCHANGED <<dbs, own, ub>>

\* No thread is inside the engine with the database handle p (the host does
\* not close a database a call is still using).
NotInUse(p) == \A u \in Threads : ~(pc[u] = "engine" /\ call[u].ndb = p)

\* drop_ptr::<Arc<Ndb>>: nothing for a null handle; else the box is released
\* and the Arc's count drops by one.
ndbClose(t) ==
    /\ Idle(t)
    /\ \E p \in DbArgs :
         LET c == [NoCall EXCEPT !.op = "ndbClose", !.ndb = p]
             d == drop_ptr(heap, p, {"Arc<Ndb>"})
         IN  /\ NotInUse(p)
             /\ heap' = d.heap
             /\ IF p = 0
                THEN /\ EnterRaw(t, d.sort, c, "done", Ok(0, FALSE))
                     /\ UNCHANGED <<strong, subs>>
                ELSE /\ strong' = [strong EXCEPT ![p] = 0]
                     /\ subs' = [subs EXCEPT ![p] = {}]
                     /\ \E r \in {"ok", "panic"} :
                          EnterRaw(t, d.sort, c, "done",
                                   IF r = "ok" THEN Ok(0, TRUE) ELSE Panicked(TRUE))
             /\ dbs' = dbs \ {p}
    /\ UNCHANGED <<own>>

\* ------------------------------------------------------------- ingestion
processEvent(t) ==
    /\ Idle(t)
    /\ \E p \in DbArgs, json \in {"jni_err", "text"} :
         Prologue(t, [NoCall EXCEPT !.op = "processEvent", !.ndb = p, !.arg = json],
                  <<NullChk(p, "ndb", {"Arc<Ndb>"}), ArgChk(java_string_to_rust(json))>>)
    /\ UNCHANGED <<heap, strong, subs, dbs, own>>

processEvent_ret(t) ==
    /\ InEngine(t, "processEvent")
    /\ \E r \in {"ok", "err", "panic"} :
         \/ r = "ok" /\ Continue(t, Ok(1, TRUE), raised[t])
         \/ r = "err" /\ \E e \in EngineErrs : Continue(t, Err(e, "", TRUE), raised[t])
         \/ r = "panic" /\ Continue(t, Panicked(TRUE), raised[t])
    /\ UNCHANGED <<heap, strong, subs, call, dbs, own, ub>>

\* The lines of a batch, each by what it is: blank, or a record the engine
\* accepts or rejects.
LineKinds == {"blank", "valid", "invalid"}

\* The batch "{valid}\n\n{invalid}\n{valid}".
MixedBatch == <<"valid", "blank", "invalid", "valid">>

Batches == UNION {[1..n -> LineKinds] : n \in 0..MaxLines} \cup {MixedBatch}

processEvents(t) ==
    /\ Idle(t)
    /\ \E p \in DbArgs, ldjson \in {"jni_err", "text"}, ls \in Batches :
         /\ ldjson = "jni_err" => ls = <<>>
         /\ Prologue(t, [NoCall EXCEPT !.op = "processEvents", !.ndb = p,
                                       !.arg = ldjson, !.lines = ls],
                     <<NullChk(p, "ndb", {"Arc<Ndb>"}), ArgChk(java_string_to_rust(ldjson))>>)
    /\ UNCHANGED <<heap, strong, subs, dbs, own>>

\* Mutant: a line the engine rejects is submitted a second time.
submit_line_retry(acc, ls, i) ==
    IF ls[i] = "blank" THEN acc
    ELSE [count |-> acc.count + (IF ls[i] = "valid" THEN 1 ELSE 0),
          submitted |-> IF ls[i] = "invalid" THEN acc.submitted \o <<i, i>>
                        ELSE Append(acc.submitted, i)]

\* The body of the loop on line i: a blank line is skipped, any other is
\* handed to process_event once and counted when that returns Ok.
submit_line(acc, ls, i) ==
    IF ls[i] = "blank" THEN acc
    ELSE [count |-> acc.count + (IF ls[i] = "valid" THEN 1 ELSE 0),
          submitted |-> Append(acc.submitted, i)]

\* for line in json_str.lines(): the count and the lines handed to the
\* engine, in the order of the calls.
RECURSIVE process_lines(_, _, _)
process_lines(acc, ls, i) ==
    IF i > Len(ls) THEN acc ELSE process_lines(submit_line(acc, ls, i), ls, i + 1)

\* Mutant: the loop ends at the first line the engine rejects (`?` on
\* process_event instead of is_ok()).
CountProcessed_abort(ls) ==
    Cardinality({i \in 1..Len(ls) :
                   ls[i] = "valid" /\ \A j \in 1..i : ls[j] # "invalid"})

\* The loop: a line is submitted when it is not blank and counted when the
\* engine accepts it.
CountProcessed(ls) == process_lines([count |-> 0, submitted |-> <<>>], ls, 1).count

processEvents_ret(t) ==
    /\ InEngine(t, "processEvents")
    /\ \E r \in {"ok", "panic"} :
         \/ r = "ok" /\ Continue(t, Ok(CountProcessed(call[t].lines), TRUE), raised[t])
         \/ /\ r = "panic"
            /\ \E i \in 1..Len(call[t].lines) : call[t].lines[i] # "blank"
            /\ Continue(t, Panicked(TRUE), raised[t])
    /\ UNCHANGED <<heap, strong, subs, call, dbs, own, ub>>

\* ------------------------------------------------------------- transactions
beginTransaction(t) ==
    /\ Idle(t)
    /\ FreeAddrs(heap) # {}
    /\ \E p \in DbArgs :
         Prologue(t, [NoCall EXCEPT !.op = "beginTransaction", !.ndb = p],
                  <<NullChk(p, "ndb", {"Arc<Ndb>"})>>)
    /\ UNCHANGED <<heap, strong, subs, dbs, own>>

beginTransaction_ret(t) ==
    /\ InEngine(t, "beginTransaction")
    /\ \E r \in {"ok", "err", "panic"} :
         \/ /\ r = "ok"
            /\ own[t].txn = {}
            /\ \E a \in NewAddrs(heap) :
                 /\ heap' = box_to_ptr(heap, a, "Transaction")
                 /\ Continue(t, Ok(a, TRUE), raised[t])
         \/ /\ r = "err"
            /\ \E e \in EngineErrs : Continue(t, Err(e, "", TRUE), raised[t])
            /\ heap' = heap
         \/ /\ r = "panic"
            /\ Continue(t, Panicked(TRUE), raised[t])
            /\ heap' = heap
    /\ UNCHANGED <<strong, subs, call, dbs, own, ub>>

endTransaction(t) ==
    /\ Idle(t)
    /\ \E p \in TxnArgs(t) :
         LET c == [NoCall EXCEPT !.op = "endTransaction", !.txn = p]
             d == drop_ptr(heap, p, {"Transaction"})
         IN  /\ heap' = d.heap
             /\ IF p = 0
                THEN EnterRaw(t, d.sort, c, "done", Ok(0, FALSE))
                ELSE \E r \in {"ok", "panic"} :
                       EnterRaw(t, d.sort, c, "done",
                                IF r = "ok" THEN Ok(0, TRUE) ELSE Panicked(TRUE))
             /\ Consume(t, "txn", p)
    /\ UNCHANGED <<strong, subs, dbs>>

\* ------------------------------------------------------------- lookups
\* The arm Err(nostrdb::Error::NotFound) => Ok(null): the closure's result,
\* with the engine error it absorbed kept in err.
NotFoundNull == [Ok(0, TRUE) EXCEPT !.err = "Nostrdb_NotFound"]

\* The match on the engine's lookup result: a record is serialised and
\* converted, NotFound is Ok(null), any other error is returned.
LookupRet(t) ==
    \E r \in {"found", "json_err", "alloc_fail", "notfound", "err", "panic"} :
      \/ r = "found" /\ rust_bytes_to_java(t, TRUE)
      \/ r = "json_err" /\ Continue(t, Err("Json", "", TRUE), raised[t])
      \/ r = "alloc_fail" /\ rust_bytes_to_java(t, FALSE)
      \/ r = "notfound" /\ Continue(t, NotFoundNull, raised[t])
      \/ r = "err" /\ \E e \in EngineErrs \ {"Nostrdb_NotFound"} :
                        Continue(t, Err(e, "", TRUE), raised[t])
      \/ r = "panic" /\ Continue(t, Panicked(TRUE), raised[t])

getNoteById(t) ==
    /\ Idle(t)
    /\ \E p \in DbArgs, x \in TxnArgs(t), len \in IdLens :
         Prologue(t, [NoCall EXCEPT !.op = "getNoteById", !.ndb = p, !.txn = x, !.len = len],
                  <<NullChk(p, "ndb", {"Arc<Ndb>"}),
                    NullChk(x, "transaction", {"Transaction"}),
                    ValChk(java_bytes_to_32(len))>>)
    /\ UNCHANGED <<heap, strong, subs, dbs, own>>

getNoteById_ret(t) ==
    /\ InEngine(t, "getNoteById")
    /\ LookupRet(t)
    /\ UNCHANGED <<heap, strong, subs, call, dbs, own, ub>>

getNoteByKey(t) ==
    /\ Idle(t)
    /\ \E p \in DbArgs, x \in TxnArgs(t) :
         Prologue(t, [NoCall EXCEPT !.op = "getNoteByKey", !.ndb = p, !.txn = x],
                  <<NullChk(p, "ndb", {"Arc<Ndb>"}),
                    NullChk(x, "transaction", {"Transaction"})>>)
    /\ UNCHANGED <<heap, strong, subs, dbs, own>>

getNoteByKey_ret(t) ==
    /\ InEngine(t, "getNoteByKey")
    /\ LookupRet(t)
    /\ UNCHANGED <<heap, strong, subs, call, dbs, own, ub>>

getProfileByPubkey(t) ==
    /\ Idle(t)
    /\ \E p \in DbArgs, x \in TxnArgs(t), len \in IdLens :
         Prologue(t, [NoCall EXCEPT !.op = "getProfileByPubkey", !.ndb = p, !.txn = x,
                                    !.len = len],
                  <<NullChk(p, "ndb", {"Arc<Ndb>"}),
                    NullChk(x, "transaction", {"Transaction"}),
                    ValChk(java_bytes_to_32(len))>>)
    /\ UNCHANGED <<heap, strong, subs, dbs, own>>

getProfileByPubkey_ret(t) ==
    /\ InEngine(t, "getProfileByPubkey")
    /\ LookupRet(t)
    /\ UNCHANGED <<heap, strong, subs, call, dbs, own, ub>>

\* ------------------------------------------------------------- queries
\* The engine's list is serialised and converted, or its error returned.
ListRet(t, fallible) ==
    \E r \in {"ok", "alloc_fail", "err", "panic"} :
      \/ r = "ok" /\ rust_bytes_to_java(t, TRUE)
      \/ r = "alloc_fail" /\ rust_bytes_to_java(t, FALSE)
      \/ r = "err" /\ fallible /\ \E e \in EngineErrs : Continue(t, Err(e, "", TRUE), raised[t])
      \/ r = "panic" /\ Continue(t, Panicked(TRUE), raised[t])

\* Mutant: the handle is rebuilt into a Box (Box::from_raw), which is
\* dropped when the closure ends.
Borrow_owned(h, ptr) == FreeBox(h, ptr)

\* ptr_to_ref: &*(ptr as *const T), a reference into the allocation, which
\* stays as it is.
Borrow(h, ptr) == h

query(t) ==
    /\ Idle(t)
    /\ \E p \in DbArgs, x \in TxnArgs(t), f \in FilterArgs(t) :
         /\ Prologue(t, [NoCall EXCEPT !.op = "query", !.ndb = p, !.txn = x, !.flt = f],
                     <<NullChk(p, "ndb", {"Arc<Ndb>"}),
                       NullChk(x, "transaction", {"Transaction"}),
                       NullChk(f, "filter", {"Filter"})>>)
         /\ heap' = Borrow(heap, f)
    /\ UNCHANGED <<strong, subs, dbs, own>>

query_ret(t) ==
    /\ InEngine(t, "query")
    /\ ListRet(t, TRUE)
    /\ UNCHANGED <<heap, strong, subs, call, dbs, own, ub>>

searchProfiles(t) ==
    /\ Idle(t)
    /\ \E p \in DbArgs, x \in TxnArgs(t), q \in {"jni_err", "text"} :
         Prologue(t, [NoCall EXCEPT !.op = "searchProfiles", !.ndb = p, !.txn = x, !.arg = q],
                  <<NullChk(p, "ndb", {"Arc<Ndb>"}),
                    NullChk(x, "transaction", {"Transaction"}),
                    ArgChk(java_string_to_rust(q))>>)
    /\ UNCHANGED <<heap, strong, subs, dbs, own>>

searchProfiles_ret(t) ==
    /\ InEngine(t, "searchProfiles")
    /\ ListRet(t, TRUE)
    /\ UNCHANGED <<heap, strong, subs, call, dbs, own, ub>>

\* ------------------------------------------------------------- subscriptions
subscribe(t) ==
    /\ Idle(t)
    /\ \E p \in DbArgs, f \in FilterArgs(t) :
         /\ Prologue(t, [NoCall EXCEPT !.op = "subscribe", !.ndb = p, !.flt = f],
                     <<NullChk(p, "ndb", {"Arc<Ndb>"}),
                       NullChk(f, "filter", {"Filter"})>>)
         /\ heap' = Borrow(heap, f)
    /\ UNCHANGED <<strong, subs, dbs, own>>

subscribe_ret(t) ==
    /\ InEngine(t, "subscribe")
    /\ \E r \in {"ok", "err", "panic"} :
         \/ /\ r = "ok"
            /\ \E s \in SubId \ subs[call[t].ndb] :
                 /\ subs' = [subs EXCEPT ![call[t].ndb] = @ \cup {s}]
                 /\ Continue(t, Ok(s, TRUE), raised[t])
         \/ /\ r = "err"
            /\ \E e \in EngineErrs : Continue(t, Err(e, "", TRUE), raised[t])
            /\ subs' = subs
         \/ /\ r = "panic"
            /\ Continue(t, Panicked(TRUE), raised[t])
            /\ subs' = subs
    /\ UNCHANGED <<heap, strong, call, dbs, own, ub>>

pollForNotes(t) ==
    /\ Idle(t)
    /\ \E p \in DbArgs, s \in SubId :
         Prologue(t, [NoCall EXCEPT !.op = "pollForNotes", !.ndb = p, !.sub = s],
                  <<NullChk(p, "ndb", {"Arc<Ndb>"})>>)
    /\ UNCHANGED <<heap, strong, subs, dbs, own>>

pollForNotes_ret(t) ==
    /\ InEngine(t, "pollForNotes")
    /\ ListRet(t, FALSE)
    /\ UNCHANGED <<heap, strong, subs, call, dbs, own, ub>>

\* Mutant: the connection is mutated without the exclusivity check.
Arc_get_mut_unchecked(p) == ""

\* Arc::get_mut: the exclusive reference, given only to the sole holder of
\* the Arc (a strong count of one).
Arc_get_mut(p) == IF strong[p] = 1 THEN "" ELSE "InvalidState"

unsubscribe(t) ==
    /\ Idle(t)
    /\ \E p \in DbArgs, s \in SubId :
         Prologue(t, [NoCall EXCEPT !.op = "unsubscribe", !.ndb = p, !.sub = s],
                  <<NullChk(p, "ndb", {"Arc<Ndb>"}),
                    ArgChk(IF p = 0 THEN "" ELSE Arc_get_mut(p))>>)
    /\ UNCHANGED <<heap, strong, subs, dbs, own>>

unsubscribe_ret(t) ==
    /\ InEngine(t, "unsubscribe")
    /\ \E r \in {"ok", "err", "panic"} :
         \/ /\ r = "ok"
            /\ subs' = [subs EXCEPT ![call[t].ndb] = @ \ {call[t].sub}]
            /\ Continue(t, Ok(0, TRUE), raised[t])
         \/ /\ r = "err"
            /\ \E e \in EngineErrs : Continue(t, Err(e, "", TRUE), raised[t])
            /\ subs' = subs
         \/ /\ r = "panic"
            /\ Continue(t, Panicked(TRUE), raised[t])
            /\ subs' = subs
    /\ UNCHANGED <<heap, strong, call, dbs, own, ub>>

\* ------------------------------------------------------------- host
\* The role of the handle an operation returns, "" when it returns none.
Returns(op) ==
    CASE op = "ndbOpen" -> "db"
      [] op = "beginTransaction" -> "txn"
      [] op \in {"filterNew"} \cup BuilderTransitions -> "bld"
      [] op = "filterBuild" -> "flt"
      [] OTHER -> ""

\* The host takes the result: with an error pending it sees only the error,
\* otherwise it keeps a handle that was returned.
JavaReturn(t) ==
    /\ pc[t] = "done"
    /\ LET role == Returns(call[t].op)
           got == raised[t] = <<>> /\ ret[t] # 0
       IN  /\ dbs' = IF got /\ role = "db" THEN dbs \cup {ret[t]} ELSE dbs
           /\ own' = IF got /\ role \in {"txn", "bld", "flt"}
                     THEN [own EXCEPT ![t] =
                             [own[t] EXCEPT ![role] = own[t][role] \cup {ret[t]}]]
                     ELSE own
    /\ pc' = [pc EXCEPT ![t] = "idle"]
    /\ call' = [call EXCEPT ![t] = NoCall]
    /\ out' = [out EXCEPT ![t] = NoOut]
    /\ ret' = [ret EXCEPT ![t] = 0]
    /\ raised' = [raised EXCEPT ![t] = <<>>]
    /\ UNCHANGED <<heap, strong, subs, ub, codec>>

\* ------------------------------------------------------------- marshalling
\* A u64 is four 16-bit limbs, least significant first, and a u32 two (the
\* checker's integers end at 2^31 - 1).
U64s == {<<7, 0, 0, 0>>, <<42, 0, 0, 0>>, <<258, 1, 0, 0>>, <<0, 0, 0, 32768>>,
         <<65535, 65535, 65535, 65535>>}

\* 32-byte blocks: pubkeys and ids.
Pubkeys == {[i \in 1..32 |-> 0], [i \in 1..32 |-> i], [i \in 1..32 |-> 256 - i]}

SeqsUpTo(S, n) == UNION {[1..m -> S] : m \in 0..n}

\* What the engine may return to query and pollForNotes, and to searchProfiles.
KeyLists == SeqsUpTo(U64s, MaxKeys)
PubkeyLists == SeqsUpTo(Pubkeys, MaxKeys)

u16_to_le_bytes(l) == <<l % 256, l \div 256>>

\* Mutant: the key is written most significant byte first.
u64_to_be_bytes(k) ==
    <<k[4] \div 256, k[4] % 256, k[3] \div 256, k[3] % 256,
      k[2] \div 256, k[2] % 256, k[1] \div 256, k[1] % 256>>

\* u64::to_le_bytes
u64_to_le_bytes(k) ==
    u16_to_le_bytes(k[1]) \o u16_to_le_bytes(k[2])
      \o u16_to_le_bytes(k[3]) \o u16_to_le_bytes(k[4])

\* (len as u32).to_le_bytes(), for a length below 2^31.
u32_to_le_bytes(n) == [i \in 1..4 |-> (n \div (256 ^ (i - 1))) % 256]

\* for x in xs { buf.extend_from_slice(x) }
RECURSIVE extend_all(_, _)
extend_all(buf, xs) ==
    IF xs = <<>> THEN buf ELSE extend_all(buf \o Head(xs), Tail(xs))

\* query, pollForNotes: [count:4][key:8]...
serialize_keys(keys) ==
    extend_all(u32_to_le_bytes(Len(keys)),
               [i \in 1..Len(keys) |-> u64_to_le_bytes(keys[i])])

\* Mutant: the count written is the number of bytes that follow.
serialize_pubkeys_bytecount(pks) ==
    extend_all(u32_to_le_bytes(32 * Len(pks)), pks)

\* searchProfiles: [count:4][pubkey:32]...
serialize_pubkeys(pks) ==
    extend_all(u32_to_le_bytes(Len(pks)), pks)

\* The byte arrays handed to filterKinds, and to filterAuthors: whole pubkeys
\* followed by the first r bytes of another.
KindBytes == SeqsUpTo({0, 1, 255}, MaxKindBytes)
AuthorBytes ==
    {extend_all(<<>>, bl) \o SubSeq(p, 1, r) :
        bl \in PubkeyLists, p \in Pubkeys, r \in {0, 1, 31}}

\* Mutant: slice::chunks, which also yields the shorter last chunk.
chunks(bytes, n) ==
    [i \in 1..((Len(bytes) + n - 1) \div n) |->
        SubSeq(bytes, n * (i - 1) + 1, Min({n * i, Len(bytes)}))]

\* slice::chunks_exact
chunks_exact(bytes, n) ==
    [i \in 1..(Len(bytes) \div n) |-> SubSeq(bytes, n * (i - 1) + 1, n * i)]

\* u32::from_le_bytes(arr) as u64
u32_from_le_bytes(arr) == <<arr[1] + 256 * arr[2], arr[3] + 256 * arr[4], 0, 0>>

\* filterKinds: chunk.try_into().unwrap() panics on a chunk that is not 4 long.
decode_kinds(bytes) ==
    LET cs == chunks_exact(bytes, 4)
    IN  IF \E i \in 1..Len(cs) : Len(cs[i]) # 4
        THEN [err |-> "Panic", val |-> <<>>]
        ELSE [err |-> "", val |-> [i \in 1..Len(cs) |-> u32_from_le_bytes(cs[i])]]

\* filterAuthors: arr.copy_from_slice(chunk) panics on a chunk that is not 32 long.
decode_authors(bytes) ==
    LET cs == chunks_exact(bytes, 32)
    IN  IF \E i \in 1..Len(cs) : Len(cs[i]) # 32
        THEN [err |-> "Panic", val |-> <<>>]
        ELSE [err |-> "", val |-> [i \in 1..Len(cs) |-> [j \in 1..32 |-> cs[i][j]]]]

\* A Java string handed to filterTag: one GetStringUTFChars cannot read, or
\* its characters.
JString(raw, chars) == [raw |-> raw, chars |-> chars]
TagNames ==
    {JString("jni_err", <<>>), JString("ok", <<>>), JString("ok", <<"e">>),
     JString("ok", <<"p", "x">>)}
TagValues ==
    {JString("jni_err", <<>>), JString("ok", <<"a">>), JString("ok", <<"b", "c">>)}

\* The arguments of filterTag: the name and the array of values, whose length
\* can be read or not.
TagInputs ==
    {[name |-> n, len_ok |-> l, items |-> v] :
        n \in TagNames, l \in BOOLEAN, v \in SeqsUpTo(TagValues, MaxValues)}

\* What filterTag does with its arguments: fails with err, or calls
\* filter.tags(values, key).
TagFail(e) == [err |-> e, called |-> FALSE, key |-> "", values |-> <<>>]

\* Mutant: the key is the last character of the name.
tag_char_last(tag) == tag[Len(tag)]

\* tag.chars().next()
tag_char(tag) == Head(tag)

\* filterTag between Box::from_raw and box_to_ptr: each ? returns at the
\* first error.
marshal_tag(a) ==
    IF java_string_to_rust(a.name.raw) # "" THEN TagFail(java_string_to_rust(a.name.raw))
    ELSE IF a.name.chars = <<>> THEN TagFail("Filter")
    ELSE IF ~a.len_ok THEN TagFail("Jni")
    ELSE IF \E i \in 1..Len(a.items) : java_string_to_rust(a.items[i].raw) # ""
    THEN TagFail("Jni")
    ELSE [err |-> "", called |-> TRUE, key |-> tag_char(a.name.chars),
          values |-> [i \in 1..Len(a.items) |-> a.items[i].chars]]

\* What env.throw_new does in throw_exception: the exception of the error's
\* class is thrown; or that fails and RuntimeException is thrown in its
\* place; or that fails too (its result is discarded: `let _ =`).
JvmThrow == {"thrown", "fallback", "failed"}

\* Mutant: the generic exception is thrown after the specific one, not in
\* its place.
throw_exception_both(thrown, e, jvm) ==
    Append(throw_exception(thrown, e),
           [kind |-> e, class |-> "java/lang/RuntimeException"])

\* throw_exception with the outcome of its calls of env.throw_new.
throw_exception_jvm(thrown, e, jvm) ==
    CASE jvm = "thrown" -> throw_exception(thrown, e)
      [] jvm = "fallback" -> Append(thrown, [kind |-> e,
                                             class |-> "java/lang/RuntimeException"])
      [] OTHER -> thrown

\* with_exception's match, throw_exception being what the JVM lets it be.
with_exception_jvm(c, o, thrown, jvm) ==
    CASE o.tag = "Ok" -> Returned(o.val, thrown)
      [] o.tag = "Err" -> Returned(Default(c), throw_exception_jvm(thrown, o.err, jvm))
      [] o.tag = "Panic" -> Returned(Default(c), throw_exception_jvm(thrown, "Panic", jvm))

\* The ways the closure of a call under with_exception ends: with a value,
\* with the array rust_bytes_to_java made ("ok") or with the null it returns
\* after throwing ("failed"), with an error, or with a panic.
ClosureEnds ==
    {[o |-> Ok(v, TRUE), helper |-> "none"] : v \in {0, 1}}
      \cup {[o |-> Ok(1, TRUE), helper |-> "ok"], [o |-> Ok(0, TRUE), helper |-> "failed"]}
      \cup {[o |-> Err(e, "", TRUE), helper |-> "none"] : e \in ErrorKinds}
      \cup {[o |-> Panicked(TRUE), helper |-> "none"]}

\* Calls under with_exception, one for each default: null, -1, filter_ptr.
RaisingCalls ==
    {[NoCall EXCEPT !.op = "getNoteById"], [NoCall EXCEPT !.op = "processEvents"],
     [NoCall EXCEPT !.op = "filterKinds", !.flt = 1]}

\* Only the calls that return a byte array go through rust_bytes_to_java.
RaiseInputs ==
    {a \in {[c |-> c, o |-> x.o, helper |-> x.helper, jvm |-> j] :
               c \in RaisingCalls, x \in ClosureEnds, j \in JvmThrow} :
        a.helper # "none" => a.c.op = "getNoteById"}

\* rust_bytes_to_java on a failed allocation throws Error::Jni itself; then
\* the wrapper's match.
raise_errors(a) ==
    with_exception_jvm(a.c, a.o,
                       IF a.helper = "failed" THEN throw_exception_jvm(<<>>, "Jni", a.jvm)
                       ELSE <<>>,
                       a.jvm)

\* A routine applied to the input x: before it ran.
CodecIn(fn, x) == [fn |-> fn, arg |-> x, res |-> <<>>, done |-> FALSE]

\* The routine fn runs on its input and leaves the result r.
CodecRun(fn, r) ==
    /\ codec.fn = fn /\ ~codec.done
    /\ codec' = [codec EXCEPT !.res = r, !.done = TRUE]

query_serialize ==
    /\ CodecRun("query", serialize_keys(codec.arg))
    /\ UNCHANGED <<heap, strong, subs, pc, call, out, ret, raised, dbs, own, ub>>

pollForNotes_serialize ==
    /\ CodecRun("pollForNotes", serialize_keys(codec.arg))
    /\ UNCHANGED <<heap, strong, subs, pc, call, out, ret, raised, dbs, own, ub>>

searchProfiles_serialize ==
    /\ CodecRun("searchProfiles", serialize_pubkeys(codec.arg))
    /\ UNCHANGED <<heap, strong, subs, pc, call, out, ret, raised, dbs, own, ub>>

filterKinds_decode ==
    /\ CodecRun("filterKinds", decode_kinds(codec.arg))
    /\ UNCHANGED <<heap, strong, subs, pc, call, out, ret, raised, dbs, own, ub>>

filterAuthors_decode ==
    /\ CodecRun("filterAuthors", decode_authors(codec.arg))
    /\ UNCHANGED <<heap, strong, subs, pc, call, out, ret, raised, dbs, own, ub>>

filterTag_marshal ==
    /\ CodecRun("filterTag", marshal_tag(codec.arg))
    /\ UNCHANGED <<heap, strong, subs, pc, call, out, ret, raised, dbs, own, ub>>

with_exception_raise ==
    /\ CodecRun("with_exception", raise_errors(codec.arg))
    /\ UNCHANGED <<heap, strong, subs, pc, call, out, ret, raised, dbs, own, ub>>

\* ------------------------------------------------------------- specification
\* No marshalling routine is looked at alone.
NoCodec == CodecIn("none", <<>>)

Init ==
    /\ codec = NoCodec
    /\ heap = [a \in Addr |-> "free"]
    /\ strong = [a \in Addr |-> 0]
    /\ subs = [a \in Addr |-> {}]
    /\ pc = [t \in Threads |-> "idle"]
    /\ call = [t \in Threads |-> NoCall]
    /\ out = [t \in Threads |-> NoOut]
    /\ ret = [t \in Threads |-> 0]
    /\ raised = [t \in Threads |-> <<>>]
    /\ dbs = {}
    /\ own = [t \in Threads |-> NoOwn]
    /\ ub = "none"

Step(t) ==
    \/ ndbOpen(t)
    \/ ndbClose(t)
    \/ processEvent(t)
    \/ processEvent_ret(t)
    \/ processEvents(t)
    \/ processEvents_ret(t)
    \/ beginTransaction(t)
    \/ beginTransaction_ret(t)
    \/ endTransaction(t)
    \/ getNoteById(t)
    \/ getNoteById_ret(t)
    \/ getNoteByKey(t)
    \/ getNoteByKey_ret(t)
    \/ query(t)
    \/ query_ret(t)
    \/ filterNew(t)
    \/ filterKinds(t)
    \/ filterAuthors(t)
    \/ filterTag(t)
    \/ filterSince(t)
    \/ filterUntil(t)
    \/ filterLimit(t)
    \/ filterSearch(t)
    \/ filterBuild(t)
    \/ filterDestroy(t)
    \/ getProfileByPubkey(t)
    \/ getProfileByPubkey_ret(t)
    \/ searchProfiles(t)
    \/ searchProfiles_ret(t)
    \/ subscribe(t)
    \/ subscribe_ret(t)
    \/ pollForNotes(t)
    \/ pollForNotes_ret(t)
    \/ unsubscribe(t)
    \/ unsubscribe_ret(t)
    \/ JavaReturn(t)

\* One host thread calls the library.
Next == \E t \in MainThread : Step(t)

Spec == Init /\ [][Next]_vars

\* Two host threads share one connection: the calls that borrow it, and
\* unsubscribe.
StepMT(t) ==
    \/ ndbOpen(t)
    \/ ndbClose(t)
    \/ processEvent(t)
    \/ processEvent_ret(t)
    \/ pollForNotes(t)
    \/ pollForNotes_ret(t)
    \/ unsubscribe(t)
    \/ unsubscribe_ret(t)
    \/ JavaReturn(t)

NextMT == \E t \in Threads : StepMT(t)

SpecMT == Init /\ [][NextMT]_vars

\* Native code outside the boundary functions takes and gives back a second
\* reference to a connection (Arc::clone, drop).
ArcClone ==
    /\ ub = "none"
    /\ \E p \in dbs :
         /\ heap[p] = "Arc<Ndb>"
         /\ strong[p] < MaxRefs
         /\ strong' = [strong EXCEPT ![p] = @ + 1]
    /\ UNCHANGED <<heap, subs, pc, call, out, ret, raised, dbs, own, ub, codec>>

ArcDrop ==
    /\ ub = "none"
    /\ \E p \in dbs :
         /\ heap[p] = "Arc<Ndb>"
         /\ strong[p] > 1
         /\ strong' = [strong EXCEPT ![p] = @ - 1]
    /\ UNCHANGED <<heap, subs, pc, call, out, ret, raised, dbs, own, ub, codec>>

NextAliased == Next \/ ArcClone \/ ArcDrop

SpecAliased == Init /\ [][NextAliased]_vars

\* Two host threads share one connection and each has its own transaction,
\* builder and filter.
StepOwned(t) ==
    \/ ndbOpen(t)
    \/ beginTransaction(t)
    \/ beginTransaction_ret(t)
    \/ endTransaction(t)
    \/ getNoteByKey(t)
    \/ getNoteByKey_ret(t)
    \/ filterNew(t)
    \/ filterDestroy(t)
    \/ JavaReturn(t)

NextOwned == \E t \in Threads : StepOwned(t)

SpecOwned == Init /\ [][NextOwned]_vars

\* An engine call returns to the entry point that made it.
EngineReturns(t) ==
    \/ processEvent_ret(t)
    \/ processEvents_ret(t)
    \/ beginTransaction_ret(t)
    \/ getNoteById_ret(t)
    \/ getNoteByKey_ret(t)
    \/ query_ret(t)
    \/ getProfileByPubkey_ret(t)
    \/ searchProfiles_ret(t)
    \/ subscribe_ret(t)
    \/ pollForNotes_ret(t)
    \/ unsubscribe_ret(t)

\* The entry points that call the engine and return afterwards, with what
\* makes the handles they need.
StepLive(t) ==
    \/ ndbOpen(t)
    \/ processEvent(t)
    \/ processEvents(t)
    \/ beginTransaction(t)
    \/ getNoteById(t)
    \/ getNoteByKey(t)
    \/ query(t)
    \/ filterNew(t)
    \/ filterBuild(t)
    \/ getProfileByPubkey(t)
    \/ searchProfiles(t)
    \/ subscribe(t)
    \/ pollForNotes(t)
    \/ unsubscribe(t)
    \/ EngineReturns(t)
    \/ JavaReturn(t)

NextLive == \E t \in MainThread : StepLive(t)

\* One host thread, and every engine call returns.
SpecLive == Init /\ [][NextLive]_vars /\ WF_vars(\E t \in MainThread : EngineReturns(t))

\* The marshalling routines, each on every input of its bounded set.
InitCodec ==
    /\ \/ \E x \in KeyLists : codec = CodecIn("query", x)
       \/ \E x \in KeyLists : codec = CodecIn("pollForNotes", x)
       \/ \E x \in PubkeyLists : codec = CodecIn("searchProfiles", x)
       \/ \E x \in KindBytes : codec = CodecIn("filterKinds", x)
       \/ \E x \in AuthorBytes : codec = CodecIn("filterAuthors", x)
       \/ \E x \in TagInputs : codec = CodecIn("filterTag", x)
       \/ \E x \in RaiseInputs : codec = CodecIn("with_exception", x)
    /\ heap = [a \in Addr |-> "free"]
    /\ strong = [a \in Addr |-> 0]
    /\ subs = [a \in Addr |-> {}]
    /\ pc = [t \in Threads |-> "idle"]
    /\ call = [t \in Threads |-> NoCall]
    /\ out = [t \in Threads |-> NoOut]
    /\ ret = [t \in Threads |-> 0]
    /\ raised = [t \in Threads |-> <<>>]
    /\ dbs = {}
    /\ own = [t \in Threads |-> NoOwn]
    /\ ub = "none"

NextCodec ==
    \/ query_serialize
    \/ pollForNotes_serialize
    \/ searchProfiles_serialize
    \/ filterKinds_decode
    \/ filterAuthors_decode
    \/ filterTag_marshal
    \/ with_exception_raise

SpecCodec == InitCodec /\ [][NextCodec]_vars

\* ------------------------------------------------------------- claims
\* The value the host is to read as "nothing": -1 for processEvents, else 0
\* (a zero handle or count, a null array).
Absent(op) == IF op = "processEvents" THEN -1 ELSE 0

\* The handles a call needs to be non-null.
RequiredHandles(c) ==
    CASE c.op \in {"processEvent", "processEvents", "beginTransaction",
                   "pollForNotes", "unsubscribe"} -> {c.ndb}
      [] c.op \in {"getNoteById", "getNoteByKey", "getProfileByPubkey",
                   "searchProfiles"} -> {c.ndb, c.txn}
      [] c.op = "query" -> {c.ndb, c.txn, c.flt}
      [] c.op = "subscribe" -> {c.ndb, c.flt}
      [] c.op \in BuilderTransitions \cup {"filterBuild"} -> {c.flt}
      [] OTHER -> {}

LiveBuilders == {a \in Addr : heap[a] = "FilterBuilder"}

\* No handle is held and no call is in flight.
Quiescent == dbs = {} /\ \A t \in Threads : pc[t] = "idle" /\ own[t] = NoOwn

\* C1: a call that fails with a declared error raises exactly the foreign
\* error mapped from it and returns the absent value of its operation (0, a
\* null array, -1 for processEvents); no other value comes with a raised error.
C1_AbsentWithError ==
    \A t \in Threads :
      /\ (pc[t] = "done" /\ out[t].tag = "Err")
           => /\ raised[t] = <<[kind |-> out[t].err, class |-> exception_class(out[t].err)]>>
              /\ ret[t] = Absent(call[t].op)
      /\ (pc[t] = "done" /\ raised[t] # <<>>) => ret[t] = Absent(call[t].op)

\* C2: a builder transition that succeeds on a live builder releases that
\* builder and returns, with no error, the handle of another builder, which
\* is then the only live builder of the chain.
C2_TransitionConsumes ==
    \A t \in Threads :
      (pc[t] = "done" /\ call[t].op \in BuilderTransitions
         /\ out[t].tag = "Ok" /\ ub = "none")
        => /\ raised[t] = <<>>
           /\ ret[t] # call[t].flt
           /\ heap[call[t].flt] = "free"
           /\ LiveBuilders = {ret[t]}

C2_Witness ==
    \E t \in Threads :
      /\ pc[t] = "done" /\ call[t].op = "filterLimit" /\ out[t].tag = "Ok"
      /\ ub = "none" /\ call[t].flt # 0 /\ own[t].flt # {}

\* C3: a call whose required handle is 0 ends with NullPointer, without
\* reaching the engine, without undefined behaviour and without a new
\* allocation being handed back.
C3_NullHandleRejected ==
    \A t \in Threads :
      (pc[t] # "idle" /\ 0 \in RequiredHandles(call[t]))
        => /\ pc[t] = "done"
           /\ out[t].tag = "Err" /\ out[t].err = "NullPointer" /\ ~out[t].eng
           /\ ub = "none"

\* C4: with a host that passes only handles it was returned and has not yet
\* given up, no allocation is released twice or used after its release, and
\* once every handle is given up nothing remains allocated.
C4_ReclaimedOnce ==
    /\ ub # "dangling"
    /\ Quiescent => \A a \in Addr : heap[a] = "free"

\* C5: filterBuild on a live builder releases the builder and, when it
\* succeeds, returns the handle of a new Filter; no builder is live once it
\* has returned.
C5_BuildConsumes ==
    \A t \in Threads :
      (pc[t] = "done" /\ call[t].op = "filterBuild" /\ ub = "none")
        => /\ heap[call[t].flt] = "free"
           /\ LiveBuilders = {}
           /\ raised[t] = <<>>
           /\ out[t].tag = "Ok" => (ret[t] # call[t].flt /\ heap[ret[t]] = "Filter")
           /\ out[t].tag # "Ok" => ret[t] = 0

C5_Witness ==
    \E t \in Threads :
      /\ pc[t] = "done" /\ call[t].op = "filterBuild" /\ out[t].tag = "Ok"
      /\ ub = "none" /\ call[t].flt # 0 /\ heap[ret[t]] = "Filter"

\* The handle whose box a call releases, if it releases one.
Consumed(c) ==
    CASE c.op \in BuilderTransitions \cup {"filterBuild", "filterDestroy"} -> {c.flt}
      [] c.op = "endTransaction" -> {c.txn}
      [] c.op = "ndbClose" -> {c.ndb}
      [] OTHER -> {}

\* C6: a panic inside any operation (in an execution whose behaviour is
\* defined) ends the call normally with the default of that operation, and
\* apart from the box the unwinding closure owned, nothing is released or
\* changed by the step that intercepts it.
C6_PanicContained ==
    [][\A t \in Threads :
         (out'[t].tag = "Panic" /\ out[t].tag # "Panic" /\ ub' = "none")
           => /\ pc'[t] = "done"
              /\ ret'[t] = Default(call'[t])
              /\ dbs' = dbs \ Consumed(call'[t])
              /\ \A a \in Addr \ Consumed(call'[t]) :
                   heap'[a] = heap[a] /\ strong'[a] = strong[a] /\ subs'[a] = subs[a]]_vars

C6_Witness ==
    \E t \in Threads :
      /\ pc[t] = "done" /\ out[t].tag = "Panic" /\ call[t].op = "filterSince"
      /\ call[t].flt # 0 /\ ret[t] = call[t].flt /\ dbs # {}

\* C7: a panic caught in any operation other than ndbClose, endTransaction
\* and filterDestroy is raised to the host as the panic error.
C7_PanicRaised ==
    \A t \in Threads :
      (pc[t] = "done" /\ out[t].tag = "Panic" /\ call[t].op \notin CatchPanicVoid)
        => \E i \in 1..Len(raised[t]) : raised[t][i].kind = "Panic"

\* C8: unsubscribe on a connection with a second reference ends with
\* InvalidState, raised as IllegalStateException, before the engine is reached
\* and with the subscriptions as they were; with the handle's reference alone
\* it goes on to the engine, and InvalidState arises in no other way.
C8_ExclusiveCheck ==
    [][\A t \in Threads :
         /\ (pc[t] = "idle" /\ pc'[t] # "idle" /\ call'[t].op = "unsubscribe"
               /\ call'[t].ndb # 0 /\ ub' = "none")
              => IF strong[call'[t].ndb] > 1
                 THEN /\ pc'[t] = "done"
                      /\ out'[t] = Err("InvalidState", "", FALSE)
                      /\ raised'[t] = <<[kind |-> "InvalidState",
                                         class |-> "java/lang/IllegalStateException"]>>
                      /\ subs' = subs
                 ELSE pc'[t] = "engine"
         /\ (out'[t].err = "InvalidState" /\ out[t].err # "InvalidState")
              => pc[t] = "idle" /\ strong[call'[t].ndb] > 1]_vars

C8_Witness ==
    \E t \in Threads :
      /\ pc[t] = "done" /\ call[t].op = "unsubscribe" /\ out[t].err = "InvalidState"
      /\ strong[call[t].ndb] > 1 /\ call[t].sub \in subs[call[t].ndb]

\* C9: unsubscribe called while another thread is inside an operation that
\* was passed the same database handle ends with InvalidState.
C9_FailsWhenShared ==
    [][\A t \in Threads :
         (/\ pc[t] = "idle" /\ pc'[t] # "idle"
          /\ call'[t].op = "unsubscribe" /\ call'[t].ndb # 0
          /\ \E u \in Threads \ {t} : pc[u] = "engine" /\ call[u].ndb = call'[t].ndb)
           => pc'[t] = "done" /\ out'[t].err = "InvalidState"]_vars

\* A destructor called with the null handle.
NullDrop(c) ==
    \/ c.op = "ndbClose" /\ c.ndb = 0
    \/ c.op = "endTransaction" /\ c.txn = 0
    \/ c.op = "filterDestroy" /\ c.flt = 0

\* C10: ndbClose, endTransaction and filterDestroy called with 0 end normally
\* with no error raised, release nothing and leave the heap, the connections
\* and every handle the host holds as they were.
C10_NullDropNoOp ==
    [][\A t \in Threads :
         (pc[t] = "idle" /\ pc'[t] # "idle" /\ NullDrop(call'[t]))
           => /\ pc'[t] = "done" /\ out'[t].tag = "Ok" /\ raised'[t] = <<>>
              /\ ub' = "none"
              /\ heap' = heap /\ strong' = strong /\ subs' = subs
              /\ dbs' = dbs /\ own' = own]_vars

C10_Witness ==
    \E t \in Threads :
      /\ pc[t] = "done" /\ NullDrop(call[t]) /\ call[t].op = "endTransaction"
      /\ dbs # {} /\ own[t].txn # {} /\ own[t].flt # {}

\* The lines of a batch the engine accepted, counted line by line.
RECURSIVE Accepted(_)
Accepted(ls) ==
    IF ls = <<>> THEN 0
    ELSE (IF Head(ls) = "valid" THEN 1 ELSE 0) + Accepted(Tail(ls))

Lookups == {"getNoteById", "getNoteByKey", "getProfileByPubkey"}

C13_LengthChecked ==
    \A t \in Threads :
      (/\ pc[t] # "idle" /\ call[t].op \in {"getNoteById", "getProfileByPubkey"}
       /\ call[t].ndb # 0 /\ call[t].txn # 0 /\ ub = "none")
        => /\ call[t].len \notin {-1, 32}
                => /\ pc[t] = "done"
                   /\ out[t] = [Err("InvalidIdLength", "", FALSE) EXCEPT !.val = call[t].len]
                   /\ ret[t] = 0
                   /\ raised[t] = <<[kind |-> "InvalidIdLength",
                                     class |-> "java/lang/IllegalArgumentException"]>>
           /\ call[t].len = 32 => out[t].err # "InvalidIdLength"

C13_Witness ==
    \E t \in Threads :
      /\ pc[t] = "done" /\ call[t].op = "getNoteById" /\ ub = "none"
      /\ call[t].ndb # 0 /\ call[t].txn # 0 /\ call[t].len = 33
      /\ out[t].err = "InvalidIdLength" /\ out[t].val = 33

\* The table of failure kinds and foreign error categories.
ForeignCategory(k) ==
    CASE k \in {"Jni", "Panic"} -> "java/lang/RuntimeException"
      [] k = "Nostrdb_NotFound" -> "java/util/NoSuchElementException"
      [] k = "Nostrdb_DbOpenFailed" -> "java/io/IOException"
      [] k \in {"Nostrdb_Other", "Json", "Filter"} -> "xyz/tcheeric/nostrdb/NostrdbException"
      [] k \in {"InvalidIdLength", "InvalidUtf8"} -> "java/lang/IllegalArgumentException"
      [] k = "NullPointer" -> "java/lang/NullPointerException"
      [] k = "InvalidState" -> "java/lang/IllegalStateException"
      [] OTHER -> "none"

\* C14: every variant of Error has the exception class the table gives its
\* kind, and every error a call raises, the panic error included, is raised
\* with the class of the table.
C14_MappingMatchesTable ==
    /\ \A k \in ErrorKinds : exception_class(k) = ForeignCategory(k)
    /\ \A t \in Threads : \A i \in 1..Len(raised[t]) :
         /\ raised[t][i].kind \in ErrorKinds \cup {"Panic"}
         /\ raised[t][i].class = ForeignCategory(raised[t][i].kind)

C14_Witness ==
    \E t \in Threads :
      /\ pc[t] = "done" /\ call[t].op = "ndbOpen"
      /\ raised[t] = <<[kind |-> "Nostrdb_DbOpenFailed", class |-> "java/io/IOException"]>>

\* The value of two bytes, least significant first.
Le16(b, i) == b[i] + 256 * b[i + 1]

\* C15: the bytes query and pollForNotes return for n keys are 4 + 8n long:
\* n as a little-endian u32, then each key in the engine's order as a
\* little-endian u64; [7, 42] gives 02 00 00 00 07 00.. 2A 00.., and no key
\* gives 00 00 00 00.
C15_KeyListEncoding ==
    (codec.done /\ codec.fn \in {"query", "pollForNotes"})
      => LET n == Len(codec.arg)
             b == codec.res
         IN  /\ Len(b) = 4 + 8 * n
             /\ \A i \in 1..Len(b) : b[i] \in 0..255
             /\ Le16(b, 1) = n /\ Le16(b, 3) = 0
             /\ \A i \in 1..n : \A j \in 1..4 :
                  Le16(b, 4 + 8 * (i - 1) + 2 * j - 1) = codec.arg[i][j]
             /\ codec.arg = <<<<7, 0, 0, 0>>, <<42, 0, 0, 0>>>>
                  => b = <<2, 0, 0, 0, 7, 0, 0, 0, 0, 0, 0, 0, 42, 0, 0, 0, 0, 0, 0, 0>>
             /\ codec.arg = <<>> => b = <<0, 0, 0, 0>>

C15_Witness ==
    /\ codec.done /\ codec.fn = "query"
    /\ codec.arg = <<<<7, 0, 0, 0>>, <<42, 0, 0, 0>>>>
    /\ codec.res = <<2, 0, 0, 0, 7, 0, 0, 0, 0, 0, 0, 0, 42, 0, 0, 0, 0, 0, 0, 0>>

\* C16: the bytes searchProfiles returns for n pubkeys are 4 + 32n long: n as
\* a little-endian u32, then each pubkey in the engine's order, unchanged.
C16_PubkeyListEncoding ==
    (codec.done /\ codec.fn = "searchProfiles")
      => LET n == Len(codec.arg)
             b == codec.res
         IN  /\ Len(b) = 4 + 32 * n
             /\ Le16(b, 1) = n /\ Le16(b, 3) = 0
             /\ \A i \in 1..n :
                  SubSeq(b, 4 + 32 * (i - 1) + 1, 4 + 32 * i) = codec.arg[i]

C16_Witness ==
    /\ codec.done /\ codec.fn = "searchProfiles"
    /\ Len(codec.arg) = 2 /\ codec.arg[1] # codec.arg[2]
    /\ Len(codec.res) = 68

\* C17: filterTag with an empty tag name fails with the Filter error and
\* applies no tag constraint; with a non-empty name the key is the first
\* character of the name and all values reach the engine in order; when one
\* value does not decode the call fails with the decoding (Jni) error and
\* applies no tag constraint.
C17_TagMarshalled ==
    (codec.done /\ codec.fn = "filterTag")
      => LET a == codec.arg
             r == codec.res
             named == a.name.raw = "ok" /\ a.name.chars # <<>>
             bad == {i \in 1..Len(a.items) : a.items[i].raw # "ok"}
         IN  /\ (a.name.raw = "ok" /\ a.name.chars = <<>>)
                  => (r.err = "Filter" /\ ~r.called)
             /\ (named /\ a.len_ok /\ bad = {})
                  => /\ r.err = "" /\ r.called
                     /\ r.key = a.name.chars[1]
                     /\ Len(r.values) = Len(a.items)
                     /\ \A i \in 1..Len(a.items) : r.values[i] = a.items[i].chars
             /\ (named /\ a.len_ok /\ bad # {})
                  => (r.err = "Jni" /\ ~r.called)
             /\ r.called => r.err = ""

C17_Witness ==
    /\ codec.done /\ codec.fn = "filterTag"
    /\ codec.arg.name.chars = <<"p", "x">>
    /\ codec.res = [err |-> "", called |-> TRUE, key |-> "p",
                    values |-> <<<<"b", "c">>, <<"a">>>>]

\* C18: filterKinds decodes L bytes into floor(L/4) kinds, the i-th the
\* little-endian u32 of bytes [4i, 4i+4); filterAuthors decodes them into
\* floor(L/32) authors, the i-th being bytes [32i, 32i+32); the bytes of a
\* trailing partial chunk raise no error and change no decoded value.
C18_ChunkedExactly ==
    /\ (codec.done /\ codec.fn = "filterKinds")
         => LET L == Len(codec.arg)
                v == codec.res.val
            IN  /\ codec.res.err = ""
                /\ Len(v) = L \div 4
                /\ \A i \in 1..Len(v) :
                     v[i] = <<Le16(codec.arg, 4 * (i - 1) + 1),
                              Le16(codec.arg, 4 * (i - 1) + 3), 0, 0>>
    /\ (codec.done /\ codec.fn = "filterAuthors")
         => LET L == Len(codec.arg)
                v == codec.res.val
            IN  /\ codec.res.err = ""
                /\ Len(v) = L \div 32
                /\ \A i \in 1..Len(v) :
                     v[i] = SubSeq(codec.arg, 32 * (i - 1) + 1, 32 * i)

C18_Witness ==
    /\ codec.done /\ codec.fn = "filterKinds"
    /\ codec.arg = <<255, 255, 255, 255, 1, 0, 0>>
    /\ codec.res = [err |-> "", val |-> <<<<65535, 65535, 0, 0>>>>]

\* The kind of object behind a handle of each role.
RoleKind(role) ==
    CASE role = "db" -> "Arc<Ndb>"
      [] role = "txn" -> "Transaction"
      [] role = "bld" -> "FilterBuilder"
      [] OTHER -> "Filter"

\* C19: every non-zero handle an operation returns, on a failure as on a
\* success, names an object of its kind that is live when the call returns;
\* a failed builder transition does not return the address of the builder
\* it has released.
C19_ReturnedHandleLive ==
    \A t \in Threads :
      (pc[t] = "done" /\ Returns(call[t].op) # "" /\ ret[t] # 0 /\ ub = "none")
        => heap[ret[t]] = RoleKind(Returns(call[t].op))

\* C20: through the boundary operations of one thread (in an execution whose
\* behaviour is defined) the strong count of the connection behind every
\* live database handle is exactly 1 and that of a closed one is 0: ndbOpen
\* mints a fresh connection, no later operation adds a counted reference,
\* ndbClose releases it; so unsubscribe never fails with InvalidState.
C20_SoleHolder ==
    ub = "none" =>
    /\ \A a \in Addr :
         /\ heap[a] = "Arc<Ndb>" => strong[a] = 1
         /\ heap[a] # "Arc<Ndb>" => strong[a] = 0
    /\ \A a \in dbs : heap[a] = "Arc<Ndb>" /\ strong[a] = 1
    /\ \A t \in Threads :
         /\ (pc[t] = "done" /\ call[t].op = "ndbOpen" /\ out[t].tag = "Ok")
              => (ret[t] \notin dbs /\ strong[ret[t]] = 1)
         /\ (pc[t] = "done" /\ call[t].op = "ndbClose" /\ call[t].ndb # 0)
              => (strong[call[t].ndb] = 0 /\ heap[call[t].ndb] = "free")
         /\ call[t].op = "unsubscribe" => out[t].err # "InvalidState"

C20_Witness ==
    \E t \in Threads :
      /\ pc[t] = "done" /\ call[t].op = "unsubscribe" /\ out[t].tag = "Ok"
      /\ out[t].eng /\ strong[call[t].ndb] = 1 /\ ub = "none"
      /\ own[t].txn # {} /\ call[t].sub \notin subs[call[t].ndb]

\* The operations that only borrow the handles they are given.
Borrowing == {"processEvent", "processEvents", "beginTransaction", "getNoteById",
              "getNoteByKey", "query", "getProfileByPubkey", "searchProfiles",
              "subscribe", "pollForNotes", "unsubscribe"}

\* C21: no step of a borrowing operation (in an execution whose behaviour is
\* defined), whether the call succeeds or fails, releases or changes an
\* allocation or takes a handle from the host; an allocation is released
\* only by the entry step of ndbClose, endTransaction, filterDestroy,
\* filterBuild or a builder transition, and it is the one behind the handle
\* that call was given.
C21_BorrowKeepsLive ==
    [][ub' = "none" =>
         /\ \A t \in Threads :
              (call'[t].op \in Borrowing /\ pc'[t] # pc[t] /\ pc'[t] # "idle")
                => /\ \A a \in Addr : heap[a] # "free" => heap'[a] = heap[a]
                   /\ strong' = strong
                   /\ dbs' = dbs /\ own' = own
         /\ \A a \in Addr :
              (heap[a] # "free" /\ heap'[a] = "free")
                => \E t \in Threads :
                     /\ pc[t] = "idle" /\ pc'[t] = "done"
                     /\ call'[t].op \notin Borrowing
                     /\ a \in Consumed(call'[t])]_vars

C21_Witness ==
    \E t \in Threads :
      /\ pc[t] = "done" /\ call[t].op = "query" /\ raised[t] # <<>> /\ out[t].eng
      /\ ub = "none" /\ subs[call[t].ndb] # {}
      /\ heap[call[t].flt] = "Filter" /\ call[t].flt \in own[t].flt
      /\ heap[call[t].txn] = "Transaction" /\ call[t].txn \in own[t].txn
      /\ heap[call[t].ndb] = "Arc<Ndb>" /\ call[t].ndb \in dbs

\* The checks the boundary owes a call, in the order database handle,
\* transaction handle, filter handle, payload: each with the error it fails
\* with ("" when it passes) and the name NullPointer carries.
OwedCheck(e, name) == [err |-> e, name |-> name]
OwedChecks(c) ==
    <<OwedCheck(IF c.op \in Borrowing /\ c.ndb = 0 THEN "NullPointer" ELSE "", "ndb"),
      OwedCheck(IF c.op \in Lookups \cup {"query", "searchProfiles"} /\ c.txn = 0
                THEN "NullPointer" ELSE "", "transaction"),
      OwedCheck(IF c.op \in BuilderTransitions \cup {"filterBuild", "query", "subscribe"}
                   /\ c.flt = 0
                THEN "NullPointer" ELSE "", "filter"),
      OwedCheck(CASE c.op \in {"getNoteById", "getProfileByPubkey"}
                       -> IF c.len = -1 THEN "Jni"
                          ELSE IF c.len # 32 THEN "InvalidIdLength" ELSE ""
                  [] c.op = "filterTag"
                       -> IF c.arg \in {"name_err", "array_err", "elem_err"} THEN "Jni"
                          ELSE IF c.arg = "empty" THEN "Filter" ELSE ""
                  [] OTHER -> IF c.arg = "jni_err" THEN "Jni" ELSE "", "")>>

\* C22: the first failing check in the order database handle, transaction
\* handle, filter handle, payload alone determines the error of a call, and
\* the engine is not called: handle 0 yields NullPointer for that handle
\* whatever follows it, a wrong-length id with valid handles yields
\* InvalidIdLength.
C22_FirstFailingCheck ==
    \A t \in Threads :
      LET k == FirstFail(OwedChecks(call[t]))
      IN  (pc[t] # "idle" /\ k # 0)
            => /\ pc[t] = "done"
               /\ out[t].tag = "Err" /\ ~out[t].eng
               /\ out[t].err = OwedChecks(call[t])[k].err
               /\ out[t].err = "NullPointer" => out[t].name = OwedChecks(call[t])[k].name

\* C22 for the operations that validate before they act (those that borrow
\* their handles, and ndbOpen), in executions whose behaviour is defined.
C22_BorrowedInOrder ==
    \A t \in Threads :
      LET k == FirstFail(OwedChecks(call[t]))
      IN  (pc[t] # "idle" /\ k # 0 /\ call[t].op \in Borrowing \cup {"ndbOpen"} /\ ub = "none")
            => /\ pc[t] = "done"
               /\ out[t].tag = "Err" /\ ~out[t].eng
               /\ out[t].err = OwedChecks(call[t])[k].err
               /\ out[t].err = "NullPointer" => out[t].name = OwedChecks(call[t])[k].name

\* What C23 says of every call: at most one error is raised; a successful
\* result other than the absent value comes with none; when the conversion
\* to a byte array fails the helper's own error is the only one and null is
\* returned.
OneErrorAtMost(a, r) ==
    /\ Len(r.raised) <= 1
    /\ (a.o.tag = "Ok" /\ r.ret # Absent(a.c.op)) => r.raised = <<>>
    /\ a.helper = "failed"
         => /\ r.ret = 0
            /\ \A i \in 1..Len(r.raised) : r.raised[i].kind = "Jni"
            /\ a.jvm # "failed" => Len(r.raised) = 1
    /\ \A i \in 1..Len(r.raised) :
         r.raised[i].class =
           IF a.jvm = "fallback" THEN "java/lang/RuntimeException"
           ELSE IF r.raised[i].kind = "Panic" THEN panic_exception_class
           ELSE exception_class(r.raised[i].kind)

\* C23 as stated: every call raises at most one error, a successful
\* non-absent result none, a failed array conversion only the helper's; a
\* caught failure or fault raises exactly one error, the generic runtime
\* error only when the specific category cannot be raised.
C23_ExactlyOneRaised ==
    (codec.done /\ codec.fn = "with_exception")
      => /\ OneErrorAtMost(codec.arg, codec.res)
         /\ codec.arg.o.tag \in {"Err", "Panic"}
              => /\ codec.res.ret = Default(codec.arg.c)
                 /\ Len(codec.res.raised) = 1
                 /\ codec.res.raised[1].kind = codec.arg.o.err

\* C23, amended: as above, but a caught failure or fault raises exactly one
\* error only when the specific category or, failing that, the generic
\* runtime error can be raised; when both attempts fail none is raised and
\* the default is still returned.
C23_OneRaisedIfThrowable ==
    (codec.done /\ codec.fn = "with_exception")
      => /\ OneErrorAtMost(codec.arg, codec.res)
         /\ codec.arg.o.tag \in {"Err", "Panic"}
              => /\ codec.res.ret = Default(codec.arg.c)
                 /\ codec.arg.jvm = "failed" => codec.res.raised = <<>>
                 /\ codec.arg.jvm # "failed"
                      => /\ Len(codec.res.raised) = 1
                         /\ codec.res.raised[1].kind = codec.arg.o.err

C23_Witness ==
    /\ codec.done /\ codec.fn = "with_exception"
    /\ codec.arg.helper = "failed" /\ codec.arg.jvm = "fallback"
    /\ codec.res = Returned(0, <<[kind |-> "Jni", class |-> "java/lang/RuntimeException"]>>)

\* The handles thread t owns: those it holds, and the one a finished call
\* has returned and the host has yet to take.
Owned(t) ==
    own[t].txn \cup own[t].bld \cup own[t].flt
      \cup (IF pc[t] = "done" /\ Returns(call[t].op) \in {"txn", "bld", "flt"}
               /\ raised[t] = <<>> /\ ret[t] # 0
            THEN {ret[t]} ELSE {})

\* The ownership discipline: every handle a thread holds is live and of its
\* kind, no handle is held by two threads, the database handle is live.
Disciplined ==
    /\ \A t \in Threads : \A role \in {"txn", "bld", "flt"} :
         \A h \in own[t][role] : heap[h] = RoleKind(role)
    /\ \A t \in Threads :
         (pc[t] = "done" /\ Returns(call[t].op) \in {"txn", "bld", "flt"}
            /\ raised[t] = <<>> /\ ret[t] # 0)
           => heap[ret[t]] = RoleKind(Returns(call[t].op))
    /\ \A t \in Threads : Owned(t) \cap dbs = {}
    /\ \A t \in Threads : \A u \in Threads \ {t} : Owned(t) \cap Owned(u) = {}
    /\ \A p \in dbs : heap[p] = "Arc<Ndb>"

C25_CloseIgnoresTransactions ==
    [][ub' = "none" =>
         \A t \in Threads :
           /\ (pc[t] = "idle" /\ pc'[t] # "idle" /\ call'[t].op = "ndbClose"
                 /\ call'[t].ndb # 0)
                => /\ pc'[t] = "done" /\ raised'[t] = <<>> /\ ret'[t] = 0
                   /\ heap'[call'[t].ndb] = "free" /\ call'[t].ndb \notin dbs'
                   /\ \A a \in Addr \ {call'[t].ndb} : heap'[a] = heap[a]
                   /\ own' = own
           /\ \A a \in Addr :
                (heap[a] = "Transaction" /\ heap'[a] # "Transaction" /\ pc'[t] # pc[t])
                  => /\ pc[t] = "idle" /\ call'[t].op = "endTransaction"
                     /\ call'[t].txn = a]_vars

C25_Witness ==
    \E t \in Threads :
      /\ pc[t] = "done" /\ call[t].op = "ndbClose" /\ call[t].ndb # 0
      /\ heap[call[t].ndb] = "free" /\ raised[t] = <<>> /\ ub = "none"
      /\ own[t].txn # {} /\ \A x \in own[t].txn : heap[x] = "Transaction"

\* Every call that has reached the engine returns.
EventuallyReturns == \A t \in MainThread : (pc[t] = "engine") ~> (pc[t] = "done")

\* A call is in the engine once: it gets there from its entry step only, and
\* the step that follows ends the call, with the result or with the default;
\* a call that has ended only goes back to the host.
EngineOnce ==
    [][\A t \in Threads :
         /\ (pc'[t] = "engine" /\ pc[t] # "engine") => pc[t] = "idle"
         /\ (pc[t] = "engine" /\ <<pc'[t], out'[t], call'[t]>> # <<pc[t], out[t], call[t]>>)
              => /\ pc'[t] = "done" /\ call'[t] = call[t]
                 /\ out'[t].tag \in {"Ok", "Err", "Panic"}
                 /\ out'[t].tag # "Ok" => ret'[t] = Absent(call[t].op)
         /\ pc[t] = "done" => pc'[t] \in {"done", "idle"}]_vars

\* processEvents hands the engine every non-blank line of the batch once, in
\* the order of the input, and counts those it accepts.
BatchOnceInOrder ==
    \A t \in Threads :
      (pc[t] = "done" /\ call[t].op = "processEvents" /\ out[t].tag = "Ok")
        => LET ls == call[t].lines
               r == process_lines([count |-> 0, submitted |-> <<>>], ls, 1)
           IN  /\ out[t].val = r.count
               /\ {r.submitted[k] : k \in 1..Len(r.submitted)}
                    = {i \in 1..Len(ls) : ls[i] # "blank"}
               /\ \A k \in 1..(Len(r.submitted) - 1) : r.submitted[k] < r.submitted[k + 1]

====
